---- MODULE Spec2Model ----
(***************************************************************************)
(* A model of the agent-zero simulation engine (src/agent_zero/model):     *)
(* init_world / init_agents build the initial world and agents, simulate   *)
(* folds step over the years list, step calls decide for every agent,      *)
(* clear_markets, applies the investments to the agent objects in place,   *)
(* updates next year's demand and advances the time.  A second state       *)
(* machine is a call of apply_patches (src/agent_zero/io) on the caller's  *)
(* assumptions and policy tables.  OrderSpec is the simulation started     *)
(* with the agent list of the later runs in any order.                     *)
(*                                                                         *)
(* Numbers.  Every Python float is an exact fixed-point number counted in  *)
(* hundredths (50.0 is 5000, 0.07 is 7, 0.05 is 5).  The inputs are drawn   *)
(* so that every product the code takes is exact at that resolution; the   *)
(* quotients of the price forecast and of the discounting are kept as      *)
(* exact fractions over a common positive denominator.                     *)
(*                                                                         *)
(* Objects.  AgentState objects are mutable and shared by reference: the   *)
(* heap maps a reference to the object's current fields, and agent lists   *)
(* (agents0, the list returned by step, the lists stored in the history)   *)
(* are sequences of references.  The prices, demand and flows dicts of a   *)
(* WorldState are objects too: dicts maps a reference to the dict's        *)
(* current content and wrefs keeps, for world0 and for the world of every  *)
(* history entry of a run, the references the WorldState holds.            *)
(***************************************************************************)
EXTENDS Integers, Sequences, FiniteSets, TLC

VARIABLES assumptions, policy, years, extra, order, heap, pc, world0,
          agents0, world, agents, history, dicts, wrefs, tables, patches, ap

vars == <<assumptions, policy, years, extra, order, heap, pc, world0,
          agents0, world, agents, history, dicts, wrefs, tables, patches, ap>>

\* The state of the simulation and the state of the scenario patching.
simVars == <<assumptions, policy, years, extra, order, heap, pc, world0,
             agents0, world, agents, history, dicts, wrefs>>

patchVars == <<tables, patches, ap>>

(***************************************************************************)
(* Bounds of the model.                                                    *)
(***************************************************************************)
MaxRows == 2

MaxSteps == 3

NumRuns == 2

MaxPatches == 2

(***************************************************************************)
(* Program constants.                                                      *)
(***************************************************************************)
StartYear == 2025

NoneVal == "None"

Inf == 1000000000

DEFAULT_PRICES == [electricity |-> 5000, hydrogen |-> 300, carbon |-> 0]

DEFAULT_DEMAND == [electricity |-> 10000, hydrogen |-> 1000]

ProducerTypes == {"ElectricityProducer", "HydrogenProducer"}

EmptyDict == [k \in {} |-> 0]

(***************************************************************************)
(* Generic helpers.                                                        *)
(***************************************************************************)
Max(a, b) == IF a >= b THEN a ELSE b

Min(a, b) == IF a <= b THEN a ELSE b

MinOf(S) == CHOOSE x \in S : \A y \in S : x <= y

DictGet(d, k, default) == IF k \in DOMAIN d THEN d[k] ELSE default

(***************************************************************************)
(* Exact arithmetic for the net present value.  A number is three limbs in *)
(* base BigBase, lowest limb first; the two lower limbs are in             *)
(* 0..BigBase-1 and the top limb carries the sign.                         *)
(***************************************************************************)
BigBase == 1000000

BigNorm(raw) ==
    LET s1 == raw[1]
        s2 == raw[2] + (s1 \div BigBase)
    IN  <<s1 % BigBase, s2 % BigBase, raw[3] + (s2 \div BigBase)>>

BigOf(x) == BigNorm(<<x, 0, 0>>)

BigAdd(a, b) == BigNorm(<<a[1] + b[1], a[2] + b[2], a[3] + b[3]>>)

BigNeg(a) == BigNorm(<<0 - a[1], 0 - a[2], 0 - a[3]>>)

BigMul(a, c) == BigNorm(<<a[1] * c, a[2] * c, a[3] * c>>)

RECURSIVE BigMulPow(_, _, _)
BigMulPow(a, c, n) == IF n = 0 THEN a ELSE BigMulPow(BigMul(a, c), c, n - 1)

BigIsPositive(a) ==
    /\ a[3] >= 0
    /\ \E i \in 1..3 : a[i] # 0

(***************************************************************************)
(* Input tables.  An assumptions row is [tech, year, param, value], a      *)
(* policy row is [year, policy_type, value]; the other columns (region,    *)
(* sector, unit, uncertainty_band) are never read by the engine.           *)
(***************************************************************************)
ARow(tech, year, param, value) ==
    [tech |-> tech, year |-> year, param |-> param, value |-> value]

PRow(year, ptype, value) ==
    [year |-> year, policy_type |-> ptype, value |-> value]

RowPool ==
    << ARow("electricity", StartYear, "invest_threshold", -100000),
       ARow("electricity", StartYear + 1, "invest_threshold", -100000),
       ARow("electricity", StartYear, "max_capacity", 10500),
       ARow("electricity", StartYear, "max_capacity", 10000),
       ARow("electricity", StartYear, "demand", 8000),
       ARow("electricity", StartYear + 1, "demand", 12000),
       ARow("hydrogen", StartYear + 1, "demand", 2000),
       ARow("hydrogen", StartYear, "initial_capacity", 10000),
       ARow("electricity", StartYear, "emissions_intensity", 160),
       ARow("electricity", StartYear, "emissions_intensity", 50),
       ARow("electricity", StartYear, "capex", 1000) >>

RECURSIVE RowsOf(_)
RowsOf(picked) ==
    IF picked = {} THEN <<>>
    ELSE <<RowPool[MinOf(picked)]>> \o RowsOf(picked \ {MinOf(picked)})

Reverse(s) == [i \in 1..Len(s) |-> s[Len(s) + 1 - i]]

\* Two rows of the table have the same tech, year and param.
HasDuplicateKey(table) ==
    \E i \in DOMAIN table : \E j \in DOMAIN table :
        /\ i < j
        /\ table[i].tech = table[j].tech
        /\ table[i].year = table[j].year
        /\ table[i].param = table[j].param

\* The tables of at most MaxRows rows of the pool, in the order of the
\* pool, and in the opposite order too when two rows have the same key
\* (every lookup of the engine selects the rows of one key, so the order
\* of the rows of different keys is never read).
AssumptionTables ==
    LET Picks == {picked \in SUBSET (1..Len(RowPool)) :
                     Cardinality(picked) <= MaxRows}
    IN  {RowsOf(picked) : picked \in Picks}
        \cup {Reverse(RowsOf(picked)) :
                 picked \in {q \in Picks : HasDuplicateKey(RowsOf(q))}}

PolicyTables ==
    { <<>>,
      <<PRow(StartYear, "carbon_price", 2500)>>,
      <<PRow(StartYear, "renewable_target", 9900),
        PRow(StartYear + 1, "carbon_price", 5000)>>,
      <<PRow(StartYear, "carbon_price", 1000),
        PRow(StartYear, "carbon_price", 2500),
        PRow(StartYear + 1, "carbon_price", 5000)>> }

Contiguous(n) == [i \in 1..n |-> StartYear + i - 1]

Sparse(n) == [i \in 1..n |-> StartYear - 1 + 6 * (i - 1)]

YearLists == {Contiguous(n) : n \in 0..MaxSteps} \cup {Sparse(MaxSteps)}

\* The agents a caller of simulate puts in the list after those of
\* init_agents: none, or one agent of a type decide does not know.
ExtraAgentLists ==
    { <<>>,
      <<[id |-> "STOR1", agent_type |-> "Storage", region |-> "AUS",
         sector |-> NoneVal, tech |-> "electricity", capacity |-> 5000,
         vintage |-> 0, cash |-> 0, horizon |-> 1, params |-> EmptyDict]>> }

(***************************************************************************)
(* decisions.py                                                            *)
(***************************************************************************)
MatchingRows(table, tech, year, param) ==
    {i \in DOMAIN table : /\ table[i].tech = tech
                          /\ table[i].year = year
                          /\ table[i].param = param}

LookupParamLast(table, tech, year, param, default) ==
    LET mask == MatchingRows(table, tech, year, param)
    IN  IF mask # {}
        THEN table[CHOOSE i \in mask : \A j \in mask : j <= i].value
        ELSE default

\* _lookup_param: the value of the first matching row, else the default.
LookupParam(table, tech, year, param, default) ==
    LET mask == MatchingRows(table, tech, year, param)
    IN  IF mask # {} THEN table[MinOf(mask)].value ELSE default

\* The denominator shared by the elements of a forecast of length H: an
\* element n stands for the price n / ForecastDen(H) (in hundredths).
ForecastDen(H) == 100 * Max(H, 1)

\* _forecast_prices: current * (1 + trend_param * (y / horizon)), y = 1..H,
\* as numerators over ForecastDen(H).
ForecastPrices(current, trend_param, horizon) ==
    [y \in 1..horizon |-> current * (100 * horizon + trend_param * y)]

\* A value v in hundredths on the scale of ComputeNpv's result for a
\* forecast of length H discounted at discount_rate.
NpvScaled(v, H, discount_rate) ==
    BigMulPow(BigOf(v * ForecastDen(H)), 100 + discount_rate, H)

RECURSIVE NpvSum(_, _, _, _, _, _)
NpvSum(y, opex, price_forecast, emissions_intensity, carbon_price, discount_rate) ==
    LET H == Len(price_forecast)
        margin == price_forecast[y] - ForecastDen(H) * opex
                  - Max(H, 1) * emissions_intensity * carbon_price
        term == BigMulPow(BigMulPow(BigOf(margin), 100, y),
                          100 + discount_rate, H - y)
    IN  IF y > H THEN BigOf(0)
        ELSE BigAdd(term, NpvSum(y + 1, opex, price_forecast,
                                 emissions_intensity, carbon_price,
                                 discount_rate))

\* _compute_npv: sum of margin / (1 + discount_rate)^y minus capex, times
\* the positive factor 100 * ForecastDen(H) * (100 + discount_rate)^H / 100.
ComputeNpv(capex, opex, price_forecast, emissions_intensity, carbon_price, discount_rate) ==
    BigAdd(NpvSum(1, opex, price_forecast, emissions_intensity, carbon_price,
                  discount_rate),
           BigNeg(NpvScaled(capex, Len(price_forecast), discount_rate)))

NpvAtLeast(npv, invest_threshold, H, discount_rate) ==
    BigAdd(npv, BigNeg(NpvScaled(invest_threshold, H, discount_rate)))[3] >= 0

\* npv > invest_threshold
NpvAbove(npv, invest_threshold, H, discount_rate) ==
    BigIsPositive(BigAdd(npv, BigNeg(NpvScaled(invest_threshold, H,
                                               discount_rate))))

\* Action(agent_id, supply, invest, retire, emissions) with the dataclass
\* defaults of the trace fields.
Action(agent_id, supply, invest, retire, emissions) ==
    [agent_id |-> agent_id, supply |-> supply, invest |-> invest,
     retire |-> retire, emissions |-> emissions,
     expected_price |-> NoneVal, action_inputs |-> NoneVal,
     state_before |-> NoneVal, state_after |-> NoneVal]

TechOf(agent) == IF agent.tech = NoneVal THEN "" ELSE agent.tech

InvestAmtUncapped(above, capacity, maxcap, invest_step) ==
    IF above /\ capacity < maxcap THEN invest_step ELSE 0

\* if npv > invest_threshold and agent.capacity < maxcap: min(...)
InvestAmt(above, capacity, maxcap, invest_step) ==
    IF above /\ capacity < maxcap
    THEN Min(invest_step, maxcap - capacity)
    ELSE 0

DecideProducer(agent, w) ==
    LET t == w.t
        tech == TechOf(agent)
        capex == LookupParam(assumptions, tech, t, "capex", 100000)
        opex == LookupParam(assumptions, tech, t, "opex", 1000)
        ei == LookupParam(assumptions, tech, t, "emissions_intensity", 0)
        trend == LookupParam(assumptions, tech, t, "trend_param", 0)
        dr == LookupParam(assumptions, tech, t, "discount_rate", 7)
        invest_threshold ==
            LookupParam(assumptions, tech, t, "invest_threshold", 0)
        maxcap == LookupParam(assumptions, tech, t, "max_capacity", Inf)
        invest_step == LookupParam(assumptions, tech, t, "invest_step", 1000)
        H == agent.horizon
        price_forecast == ForecastPrices(w.prices[tech], trend, H)
        npv == ComputeNpv(capex, opex, price_forecast, ei, w.prices.carbon, dr)
        invest_amt == InvestAmt(NpvAbove(npv, invest_threshold, H, dr),
                                agent.capacity, maxcap, invest_step)
        supply_amt == agent.capacity
        emissions == (supply_amt * ei) \div 100
    IN  Action(agent.id, tech :> supply_amt, tech :> invest_amt, tech :> 0,
               emissions)

DecideConsumerFeedsBack(agent, w) ==
    LET t == w.t
        ref_price == LookupParam(assumptions, "electricity", t, "ref_price",
                                 6000)
        d_hi == LookupParam(assumptions, "electricity", t, "demand_high",
                            DictGet(w.demand, "electricity", 10000))
        d_lo == LookupParam(assumptions, "electricity", t, "demand_low",
                            (80 * DictGet(w.demand, "electricity", 10000))
                                \div 100)
        consumption == IF w.prices.electricity < ref_price THEN d_hi ELSE d_lo
    IN  Action(agent.id, "electricity" :> (0 - consumption), EmptyDict,
               EmptyDict, 0)

DecideConsumer(agent, w) ==
    LET t == w.t
        ref_price == LookupParam(assumptions, "electricity", t, "ref_price",
                                 6000)
        d_hi == LookupParam(assumptions, "electricity", t, "demand_high",
                            DictGet(w.demand, "electricity", 10000))
        d_lo == LookupParam(assumptions, "electricity", t, "demand_low",
                            (80 * DictGet(w.demand, "electricity", 10000))
                                \div 100)
        consumption == IF w.prices.electricity < ref_price THEN d_hi ELSE d_lo
    IN  Action(agent.id, EmptyDict, EmptyDict, EmptyDict, 0)

\* raise ValueError(f"Unknown agent type {agent.agent_type}")
ValueError(agent) ==
    [raised |-> "ValueError", agent_type |-> agent.agent_type]

IsRaise(x) == "raised" \in DOMAIN x

DecideRegulatorReports(agent, w) ==
    IF agent.agent_type = "Regulator"
    THEN Action(agent.id, EmptyDict, EmptyDict, EmptyDict, w.emissions)
    ELSE IF agent.agent_type \in ProducerTypes
    THEN DecideProducer(agent, w)
    ELSE IF agent.agent_type = "IndustrialConsumer"
    THEN DecideConsumer(agent, w)
    ELSE ValueError(agent)

\* decide(agent, world)
Decide(agent, w) ==
    IF agent.agent_type = "Regulator"
    THEN Action(agent.id, EmptyDict, EmptyDict, EmptyDict, 0)
    ELSE IF agent.agent_type \in ProducerTypes
    THEN DecideProducer(agent, w)
    ELSE IF agent.agent_type = "IndustrialConsumer"
    THEN DecideConsumer(agent, w)
    ELSE ValueError(agent)

(***************************************************************************)
(* markets.py                                                              *)
(***************************************************************************)
K_E == 5

K_H == 5

RECURSIVE SumSupply(_, _)
SumSupply(actions, commodity) ==
    IF actions = <<>> THEN 0
    ELSE DictGet(Head(actions).supply, commodity, 0)
         + SumSupply(Tail(actions), commodity)

SumEmissionsLast(actions) ==
    IF actions = <<>> THEN 0 ELSE actions[Len(actions)].emissions

RECURSIVE SumEmissions(_)
SumEmissions(actions) ==
    IF actions = <<>> THEN 0
    ELSE Head(actions).emissions + SumEmissions(Tail(actions))

AdjustPriceNoFloor(price, k, bal) == price + (k * (0 - bal)) \div 100

AdjustPriceWrongSign(price, k, bal) == Max(0, price + (k * bal) \div 100)

\* max(0.0, price + k * (-bal))
AdjustPrice(price, k, bal) == Max(0, price + (k * (0 - bal)) \div 100)

CarbonRows(table, t) ==
    {i \in DOMAIN table : /\ table[i].year = t
                          /\ table[i].policy_type = "carbon_price"}

CarbonPriceReset(table, t, previous) ==
    LET mask == {i \in DOMAIN table : /\ table[i].year = t
                                      /\ table[i].policy_type = "carbon_price"}
    IN  IF mask # {} THEN table[MinOf(mask)].value ELSE DEFAULT_PRICES.carbon

CarbonPriceNextYear(table, t, previous) ==
    LET mask == CarbonRows(table, t + 1)
    IN  IF mask # {} THEN table[MinOf(mask)].value ELSE previous

\* The carbon price after the policy lookup for year t.
CarbonPrice(table, t, previous) ==
    LET mask == CarbonRows(table, t)
    IN  IF mask # {} THEN table[MinOf(mask)].value ELSE previous

\* clear_markets(world, actions)
ClearMarkets(w, actions) ==
    LET t == w.t
        supply_e == SumSupply(actions, "electricity")
        supply_h == SumSupply(actions, "hydrogen")
        bal_e == supply_e - DictGet(w.demand, "electricity", 0)
        bal_h == supply_h - DictGet(w.demand, "hydrogen", 0)
    IN  [t |-> t,
         prices |-> [electricity |-> AdjustPrice(w.prices.electricity, K_E,
                                                 bal_e),
                     hydrogen |-> AdjustPrice(w.prices.hydrogen, K_H, bal_h),
                     carbon |-> CarbonPrice(policy, t, w.prices.carbon)],
         demand |-> w.demand,
         flows |-> [electricity_supply |-> supply_e,
                    hydrogen_supply |-> supply_h],
         emissions |-> SumEmissions(actions)]

(***************************************************************************)
(* world.py, agents.py                                                     *)
(***************************************************************************)
DemandRows(table, year, commodity) ==
    {i \in DOMAIN table : /\ table[i].year = year
                          /\ table[i].param = "demand"
                          /\ table[i].tech = commodity}

DemandForReset(table, year, commodity, current) ==
    LET mask == {i \in DOMAIN table : /\ table[i].year = year
                                      /\ table[i].param = "demand"
                                      /\ table[i].tech = commodity}
    IN  IF mask # {} THEN table[MinOf(mask)].value
        ELSE DEFAULT_DEMAND[commodity]

\* demand[commodity] after the override by the first demand row of the year.
DemandFor(table, year, commodity, current) ==
    LET mask == DemandRows(table, year, commodity)
    IN  IF mask # {} THEN table[MinOf(mask)].value ELSE current

InitWorldDefaults(atable, ptable, start_year) ==
    [t |-> start_year,
     prices |-> DEFAULT_PRICES,
     demand |-> DEFAULT_DEMAND,
     flows |-> EmptyDict,
     emissions |-> 0]

\* init_world(assumptions, policy, start_year)
InitWorld(atable, ptable, start_year) ==
    [t |-> start_year,
     prices |-> [electricity |-> DEFAULT_PRICES.electricity,
                 hydrogen |-> DEFAULT_PRICES.hydrogen,
                 carbon |-> CarbonPrice(ptable, start_year,
                                        DEFAULT_PRICES.carbon)],
     demand |-> [c \in {"electricity", "hydrogen"} |->
                    DemandFor(atable, start_year, c, DEFAULT_DEMAND[c])],
     flows |-> EmptyDict,
     emissions |-> 0]

AgentState(id, agent_type, region, sector, tech, capacity, vintage, cash, horizon) ==
    [id |-> id, agent_type |-> agent_type, region |-> region,
     sector |-> sector, tech |-> tech, capacity |-> capacity,
     vintage |-> vintage, cash |-> cash, horizon |-> horizon,
     params |-> EmptyDict]

\* init_agents(assumptions, start_year)
InitAgents(atable, start_year) ==
    LET elec_cap == LookupParam(atable, "electricity", start_year,
                                "initial_capacity", 10000)
        h2_cap == LookupParam(atable, "hydrogen", start_year,
                              "initial_capacity", 1000)
    IN  << AgentState("EGEN1", "ElectricityProducer", "AUS", NoneVal,
                      "electricity", elec_cap, start_year, 0, 3),
           AgentState("H2GEN1", "HydrogenProducer", "AUS", NoneVal,
                      "hydrogen", h2_cap, start_year, 0, 3),
           AgentState("IND1", "IndustrialConsumer", "AUS", "Industry",
                      NoneVal, 0, 0, 0, 1),
           AgentState("REG", "Regulator", "AUS", NoneVal, NoneVal, 0, 0, 0,
                      1) >>

NewRefsCached(h, n) == [k \in 1..n |-> k]

\* The references of n objects constructed when the heap is h: each
\* AgentState(...) call makes a new object.
NewRefs(h, n) == [k \in 1..n |-> Cardinality(DOMAIN h) + k]

(***************************************************************************)
(* simulate.py                                                             *)
(***************************************************************************)
\* _agent_to_dict(agent)
AgentToDict(agent) ==
    [id |-> agent.id, agent_type |-> agent.agent_type,
     region |-> agent.region, sector |-> agent.sector, tech |-> agent.tech,
     capacity |-> agent.capacity, vintage |-> agent.vintage,
     cash |-> agent.cash, horizon |-> agent.horizon, params |-> agent.params]

FirstActionForAny(actions, id) == IF actions # <<>> THEN 1 ELSE 0

\* next((x for x in actions if x.agent_id == id), None), as an index or 0.
FirstActionFor(actions, id) ==
    LET found == {k \in DOMAIN actions : actions[k].agent_id = id}
    IN  IF found # {} THEN MinOf(found) ELSE 0

\* next((a for a in agents if a.id == id), None), as an index or 0.
FirstAgentFor(h, refs, id) ==
    LET found == {k \in DOMAIN refs : h[refs[k]].id = id}
    IN  IF found # {} THEN MinOf(found) ELSE 0

\* {ag.id: _agent_to_dict(ag) for ag in agents}.get(id): the last agent of
\* the list with that id wins.
StateBefore(h, refs, id) ==
    LET found == {k \in DOMAIN refs : h[refs[k]].id = id}
    IN  IF found # {}
        THEN AgentToDict(h[refs[CHOOSE k \in found : \A j \in found : j <= k]])
        ELSE NoneVal

AddCapacityDropped(capacity, invest) == capacity

AddCapacitySubtracts(capacity, invest) == capacity - invest

\* ag.capacity += act.invest.get(tech, 0.0)
AddCapacity(capacity, invest) == capacity + invest

\* The loop that updates the capacities in place, from agent k onwards.
RECURSIVE ApplyInvestments(_, _, _, _)
ApplyInvestments(h, refs, actions, k) ==
    IF k > Len(refs) THEN h
    ELSE LET ag == h[refs[k]]
             a == FirstActionFor(actions, ag.id)
             h2 == IF a # 0 /\ ag.agent_type \in ProducerTypes
                   THEN [h EXCEPT ![refs[k]].capacity =
                            AddCapacity(ag.capacity,
                                DictGet(actions[a].invest, TechOf(ag), 0))]
                   ELSE h
         IN  ApplyInvestments(h2, refs, actions, k + 1)

WithTracesLate(hBefore, hAfter, refs, actions) ==
    [k \in DOMAIN actions |->
        LET id == actions[k].agent_id
            after == FirstAgentFor(hAfter, refs, id)
        IN  [actions[k] EXCEPT
                !.state_before = StateBefore(hAfter, refs, id),
                !.state_after = IF after # 0
                                THEN AgentToDict(hAfter[refs[after]])
                                ELSE NoneVal]]

\* replace(act, state_before=..., state_after=...) for every action.
WithTraces(hBefore, hAfter, refs, actions) ==
    [k \in DOMAIN actions |->
        LET id == actions[k].agent_id
            after == FirstAgentFor(hAfter, refs, id)
        IN  [actions[k] EXCEPT
                !.state_before = StateBefore(hBefore, refs, id),
                !.state_after = IF after # 0
                                THEN AgentToDict(hAfter[refs[after]])
                                ELSE NoneVal]]

AdvanceTimeStuck(t) == t

\* t=world2.t + 1
AdvanceTime(t) == t + 1

\* The world returned by step: next year's demand and the time advanced.
NextWorld(world2) ==
    LET t_next == world2.t + 1
    IN  [t |-> AdvanceTime(world2.t),
         prices |-> world2.prices,
         demand |-> [c \in DOMAIN world2.demand |->
                        DemandFor(assumptions, t_next, c, world2.demand[c])],
         flows |-> world2.flows,
         emissions |-> world2.emissions]

\* The index of the first agent whose decide call raises, or 0.
FirstRaise(actions) ==
    LET found == {k \in DOMAIN actions : IsRaise(actions[k])}
    IN  IF found # {} THEN MinOf(found) ELSE 0

HeapAtRaiseInterleaved(h, refs, actions) ==
    LET n == FirstRaise(actions) - 1
    IN  ApplyInvestments(h, SubSeq(refs, 1, n), SubSeq(actions, 1, n), 1)

\* The heap when the list comprehension of the decisions raises: all the
\* decide calls come before the first capacity update, so no object has
\* been written.
HeapAtRaise(h, refs, actions) == h

StepResultDemandFirst(w, h, refs) ==
    LET actions == [k \in DOMAIN refs |-> Decide(h[refs[k]], w)]
    IN  IF FirstRaise(actions) # 0
        THEN [raised |-> TRUE,
              world |-> w,
              heap |-> HeapAtRaise(h, refs, actions),
              agents |-> refs,
              actions |-> <<>>]
        ELSE LET h2 == ApplyInvestments(h, refs, actions, 1)
                 w1 == [NextWorld(w) EXCEPT !.t = w.t]
                 world2 == ClearMarkets(w1, actions)
             IN  [raised |-> FALSE,
                  world |-> [world2 EXCEPT !.t = AdvanceTime(world2.t)],
                  heap |-> h2,
                  agents |-> refs,
                  actions |-> WithTraces(h, h2, refs, actions)]

\* step(world, agents): the returned world, the heap after the in-place
\* capacity updates, the returned agent list and the traced actions; or
\* the exception that leaves step and the heap it leaves behind.
StepResult(w, h, refs) ==
    LET actions == [k \in DOMAIN refs |-> Decide(h[refs[k]], w)]
    IN  IF FirstRaise(actions) # 0
        THEN [raised |-> TRUE,
              world |-> w,
              heap |-> HeapAtRaise(h, refs, actions),
              agents |-> refs,
              actions |-> <<>>]
        ELSE LET world2 == ClearMarkets(w, actions)
                 h2 == ApplyInvestments(h, refs, actions, 1)
             IN  [raised |-> FALSE,
                  world |-> NextWorld(world2),
                  heap |-> h2,
                  agents |-> refs,
                  actions |-> WithTraces(h, h2, refs, actions)]

\* The first reference that is not in use in an object store.
FreshRef(store) ==
    IF DOMAIN store = {} THEN 1
    ELSE (CHOOSE x \in DOMAIN store : \A y \in DOMAIN store : y <= x) + 1

\* d[...] = ...: the object ref of the store holds the content afterwards.
WriteDict(store, ref, content) ==
    [x \in DOMAIN store \cup {ref} |-> IF x = ref THEN content ELSE store[x]]

DictCopyAliased(ref, fresh) == ref

\* dict(world.prices): the copy is a new object.
DictCopy(ref, fresh) == fresh

\* The dict objects of init_world: prices and demand are copies of the
\* defaults, flows is the new dict of the dataclass default.
InitWorldDicts(store, w0) ==
    LET n == FreshRef(store)
        s1 == WriteDict(store, n, w0.prices)
        s2 == WriteDict(s1, n + 1, w0.demand)
        s3 == WriteDict(s2, n + 2, w0.flows)
    IN  [store |-> s3,
         refs |-> [prices |-> n, demand |-> n + 1, flows |-> n + 2]]

\* The dict objects of one step on the world whose dicts are inp:
\* clear_markets copies prices and demand and writes the new prices into
\* its copy, builds a new flows dict, step copies the demand of world2 and
\* writes next year's demand into that copy; world3 holds the prices and
\* flows objects of world2 and the demand copy of step.
StepDicts(store, inp, world3) ==
    LET n == FreshRef(store)
        prices == DictCopy(inp.prices, n)
        demand2 == DictCopy(inp.demand, n + 1)
        flows == n + 2
        demand == DictCopy(demand2, n + 3)
        s1 == WriteDict(store, prices, world3.prices)
        s2 == WriteDict(s1, demand2, s1[inp.demand])
        s3 == WriteDict(s2, flows, world3.flows)
        s4 == WriteDict(s3, demand, world3.demand)
    IN  [store |-> s4,
         refs |-> [prices |-> prices, demand |-> demand, flows |-> flows]]

\* simulate(world0, agents0, years) as a function: the worlds and the
\* traced actions of the n steps taken from world w with the agent
\* objects refs in heap h.
RECURSIVE SimulateFrom(_, _, _, _)
SimulateFrom(w, h, refs, n) ==
    IF n = 0 THEN <<>>
    ELSE LET res == StepResult(w, h, refs)
         IN  <<[world |-> res.world, actions |-> res.actions]>>
             \o SimulateFrom(res.world, res.heap, refs, n - 1)

(***************************************************************************)
(* apply_patches.py.  A DataFrame is an object of the store `tables`: its  *)
(* set of columns and its rows, each row a function from the columns to    *)
(* the cell values.  A null cell (None, NaN) is NoneVal; dimension values, *)
(* the year included, are written as strings; values are in hundredths.    *)
(***************************************************************************)
DIM_COLS == {"region", "sector", "tech", "year", "param"}

DataFrame(columns, rows) == [columns |-> columns, rows |-> rows]

\* A row with the dimension columns, value and unit, cut to the columns cols.
TRow(cols, region, sector, tech, year, param, value, unit) ==
    LET full == [region |-> region, sector |-> sector, tech |-> tech,
                 year |-> year, param |-> param, policy_type |-> param,
                 value |-> value, unit |-> unit]
    IN  [c \in cols |-> full[c]]

AssumptionCols ==
    {"region", "sector", "tech", "year", "param", "value", "unit"}

PolicyCols == {"region", "sector", "year", "policy_type", "value", "unit"}

\* The assumptions tables a caller passes: one with every column and rows
\* that share dimensions, one without the region and sector columns.
PatchAssumptionTables ==
    { DataFrame(AssumptionCols,
        << TRow(AssumptionCols, "AUS", "energy", "electricity", "2025",
                "capex", 100000, "AUD/kW"),
           TRow(AssumptionCols, "AUS", "energy", "electricity", "2030",
                "capex", 80000, "AUD/kW"),
           TRow(AssumptionCols, "AUS", NoneVal, "hydrogen", "2025",
                "capex", 120000, "AUD/kW") >>),
      DataFrame(AssumptionCols \ {"region", "sector"},
        << TRow(AssumptionCols \ {"region", "sector"}, NoneVal, NoneVal,
                "electricity", "2025", "capex", 100000, "AUD/kW") >>) }

PatchPolicyTables ==
    { DataFrame(PolicyCols,
        << TRow(PolicyCols, "AUS", NoneVal, NoneVal, "2025", "carbon_price",
                2500, "AUD/tCO2"),
           TRow(PolicyCols, "AUS", NoneVal, NoneVal, "2030", "carbon_price",
                5000, "AUD/tCO2") >>),
      DataFrame(PolicyCols, <<>>) }

Patch(target, region, sector, tech, year, param, operation, value, unit) ==
    [target |-> target, region |-> region, sector |-> sector, tech |-> tech,
     year |-> year, param |-> param, operation |-> operation,
     value |-> value, unit |-> unit]

PatchPool ==
    { Patch("assumptions", "AUS", NoneVal, "electricity", NoneVal, "capex",
            "replace", 90000, "AUD/kW"),
      Patch("assumptions", "AUS", NoneVal, "electricity", NoneVal, "capex",
            "add", 700, "AUD/kW"),
      Patch("assumptions", NoneVal, NoneVal, "electricity", "2025", "capex",
            "scale", 50, "AUD/kW"),
      Patch("assumptions", NoneVal, NoneVal, "solar", NoneVal, NoneVal,
            "add", 1000, "AUD/kW"),
      Patch("assumptions", NoneVal, NoneVal, NoneVal, "2025", NoneVal,
            "add", 500, "AUD/kW"),
      Patch("policy", "AUS", NoneVal, NoneVal, "2025", NoneVal,
            "replace", 3000, "AUD/tCO2"),
      Patch("policy", "AUS", NoneVal, NoneVal, "2025", "carbon_price",
            "replace", 4000, "AUD/tCO2"),
      Patch("policy", NoneVal, NoneVal, NoneVal, "2031", NoneVal,
            "scale", 200, "AUD/tCO2") }

RECURSIVE SeqsOfLen(_, _)
SeqsOfLen(S, n) ==
    IF n = 0 THEN {<<>>}
    ELSE {Append(q, x) : q \in SeqsOfLen(S, n - 1), x \in S}

PatchLists == UNION {SeqsOfLen(PatchPool, n) : n \in 0..MaxPatches}

\* The objects of the caller: its assumptions and its policy table.
CallerAssumptions == 1

CallerPolicy == 2

\* _ensure_dim_cols(df): the missing dimension columns are added to df
\* itself, null in every row.
EnsureDimCols(df) ==
    DataFrame(df.columns \cup DIM_COLS,
              [j \in DOMAIN df.rows |->
                  [c \in df.columns \cup DIM_COLS |->
                      IF c \in df.columns THEN df.rows[j][c] ELSE NoneVal]])

CopyOfAliased(ref, fresh) == ref

\* df.copy(): the object the copy of object ref is, fresh being the next
\* unused reference.
CopyOf(ref, fresh) == fresh

PatchMaskExact(df, row) ==
    {j \in DOMAIN df.rows : \A c \in DIM_COLS : df.rows[j][c] = row[c]}

\* The rows of df that equal the patch row on every dimension that is not
\* null in the patch.
PatchMask(df, row) ==
    {j \in DOMAIN df.rows :
        \A c \in DIM_COLS : row[c] = NoneVal \/ df.rows[j][c] = row[c]}

\* base.loc[matches.index, "value"] = f(value), written into base itself.
SetValues(df, mask, row) ==
    [df EXCEPT !.rows =
        [j \in DOMAIN df.rows |->
            IF j \notin mask THEN df.rows[j]
            ELSE [df.rows[j] EXCEPT !["value"] =
                    IF row.operation = "replace" THEN row.value
                    ELSE IF row.operation = "scale"
                    THEN (@ * row.value) \div 100
                    ELSE @ + row.value]]]

\* The new row of a replace without a match: the dimensions, the value,
\* the unit and the param of the patch, null in every other column.
NewRow(df, row) ==
    [c \in df.columns \cup {"value", "unit", "param"} |->
        IF c \in DIM_COLS \cup {"value", "unit"} THEN row[c] ELSE NoneVal]

\* pd.concat([base, pd.DataFrame([new_row])], ignore_index=True): a new
\* object with the union of the columns.
Concat(df, new_row) ==
    DataFrame(df.columns \cup DOMAIN new_row,
              [j \in 1..(Len(df.rows) + 1) |->
                  [c \in df.columns \cup DOMAIN new_row |->
                      IF j = Len(df.rows) + 1 THEN new_row[c]
                      ELSE IF c \in df.columns THEN df.rows[j][c]
                      ELSE NoneVal]])

PatchStepAppendLost(store, base, row) ==
    LET mask == PatchMask(store[base], row)
        fresh == Cardinality(DOMAIN store) + 1
    IN  IF row.operation = "replace" /\ mask = {}
        THEN [store |-> [x \in DOMAIN store \cup {fresh} |->
                            IF x = fresh
                            THEN Concat(store[base], NewRow(store[base], row))
                            ELSE store[x]],
              base |-> base]
        ELSE IF row.operation \in {"replace", "scale", "add"}
        THEN [store |-> [store EXCEPT ![base] = SetValues(@, mask, row)],
              base |-> base]
        ELSE [store |-> store, base |-> base]

\* One iteration of the loop over the patches: the store afterwards and
\* the object base is assigned back from.
PatchStep(store, base, row) ==
    LET mask == PatchMask(store[base], row)
        fresh == Cardinality(DOMAIN store) + 1
    IN  IF row.operation = "replace" /\ mask = {}
        THEN [store |-> [x \in DOMAIN store \cup {fresh} |->
                            IF x = fresh
                            THEN Concat(store[base], NewRow(store[base], row))
                            ELSE store[x]],
              base |-> fresh]
        ELSE IF row.operation \in {"replace", "scale", "add"}
        THEN [store |-> [store EXCEPT ![base] = SetValues(@, mask, row)],
              base |-> base]
        ELSE [store |-> store, base |-> base]

(***************************************************************************)
(* The state machine.  A run builds world0 and agents0 from the tables and *)
(* calls simulate; the runs of a process follow one another.               *)
(***************************************************************************)
Runs == 1..NumRuns

Init ==
    /\ assumptions \in AssumptionTables
    /\ policy \in PolicyTables
    /\ years \in YearLists
    /\ extra \in ExtraAgentLists
    /\ order = <<>>
    /\ heap = EmptyDict
    /\ pc = [r \in Runs |-> "new"]
    /\ world0 = [r \in Runs |-> NoneVal]
    /\ agents0 = [r \in Runs |-> <<>>]
    /\ world = [r \in Runs |-> NoneVal]
    /\ agents = [r \in Runs |-> <<>>]
    /\ history = [r \in Runs |-> <<>>]
    /\ dicts = EmptyDict
    /\ wrefs = [r \in Runs |-> <<>>]
    /\ tables = EmptyDict
    /\ patches = <<>>
    /\ ap = [pc |-> "idle"]

\* The agent list a caller passes to simulate: the list as built, or the
\* same agents in the order ord (a permutation of the positions).
AgentsPassed(objs, ord) ==
    IF ord = <<>> THEN objs ELSE [k \in DOMAIN ord |-> objs[ord[k]]]

\* init_world, init_agents and the entry of simulate.  The first run
\* passes the agents as built, the later runs in the order `order`.
Build(r) ==
    /\ pc[r] = "new"
    /\ IF r = 1 THEN TRUE ELSE pc[r - 1] = "done"
    /\ LET objs == AgentsPassed(InitAgents(assumptions, StartYear) \o extra,
                             IF r = 1 THEN <<>> ELSE order)
           refs == NewRefs(heap, Len(objs))
           w0 == InitWorld(assumptions, policy, StartYear)
       IN  /\ heap' = heap @@ [x \in {refs[k] : k \in DOMAIN refs} |->
                                 objs[CHOOSE k \in DOMAIN refs : refs[k] = x]]
           /\ world0' = [world0 EXCEPT ![r] = w0]
           /\ agents0' = [agents0 EXCEPT ![r] = refs]
           /\ world' = [world EXCEPT ![r] = w0]
           /\ agents' = [agents EXCEPT ![r] = refs]
           /\ \E d \in {InitWorldDicts(dicts, w0)} :
                 /\ dicts' = d.store
                 /\ wrefs' = [wrefs EXCEPT ![r] = <<d.refs>>]
    /\ history' = [history EXCEPT ![r] = <<>>]
    /\ pc' = [pc EXCEPT ![r] = "loop"]
    /\ UNCHANGED <<assumptions, policy, years, extra, order>>
    /\ UNCHANGED patchVars

LoopCountShort(yrs) == Len(yrs) - 1

\* for _ in years: the number of iterations of the loop of simulate.
LoopCount(yrs) == Len(yrs)

\* One iteration of the loop of simulate; an exception raised in step
\* leaves simulate before the assignment and the append of the iteration.
Step(r) ==
    /\ pc[r] = "loop"
    /\ Len(history[r]) < LoopCount(years)
    /\ \E res \in {StepResult(world[r], heap, agents[r])} :
           /\ heap' = res.heap
           /\ IF res.raised
              THEN /\ pc' = [pc EXCEPT ![r] = "error"]
                   /\ UNCHANGED <<world, agents, history, dicts, wrefs>>
              ELSE /\ world' = [world EXCEPT ![r] = res.world]
                   /\ agents' = [agents EXCEPT ![r] = res.agents]
                   /\ history' = [history EXCEPT ![r] =
                                    Append(@, [world |-> res.world,
                                               agents |-> res.agents,
                                               actions |-> res.actions])]
                   /\ \E d \in {StepDicts(dicts, wrefs[r][Len(wrefs[r])],
                                          res.world)} :
                         /\ dicts' = d.store
                         /\ wrefs' = [wrefs EXCEPT ![r] = Append(@, d.refs)]
                   /\ UNCHANGED pc
    /\ UNCHANGED <<assumptions, policy, years, extra, order, world0, agents0>>
    /\ UNCHANGED patchVars

\* The years are exhausted: simulate returns the history.
Return(r) ==
    /\ pc[r] = "loop"
    /\ Len(history[r]) >= LoopCount(years)
    /\ pc' = [pc EXCEPT ![r] = "done"]
    /\ UNCHANGED <<assumptions, policy, years, extra, order, heap, world0,
                   agents0, world, agents, history, dicts, wrefs>>
    /\ UNCHANGED patchVars

Next == \E r \in Runs : Build(r) \/ Step(r) \/ Return(r)

Spec == Init /\ [][Next]_vars

\* The orders in which a caller can pass the four agents of init_agents.
AgentOrders ==
    {p \in [1..4 -> 1..4] : \A i, j \in 1..4 : p[i] = p[j] => i = j}

\* The same machine started with the agents of the later runs permuted:
\* the tables hold at most one row and no agent is added to the list.
OrderInit ==
    /\ assumptions \in {t \in AssumptionTables : Len(t) <= 1}
    /\ policy \in PolicyTables
    /\ years \in YearLists
    /\ extra = <<>>
    /\ order \in AgentOrders
    /\ heap = EmptyDict
    /\ pc = [r \in Runs |-> "new"]
    /\ world0 = [r \in Runs |-> NoneVal]
    /\ agents0 = [r \in Runs |-> <<>>]
    /\ world = [r \in Runs |-> NoneVal]
    /\ agents = [r \in Runs |-> <<>>]
    /\ history = [r \in Runs |-> <<>>]
    /\ dicts = EmptyDict
    /\ wrefs = [r \in Runs |-> <<>>]
    /\ tables = EmptyDict
    /\ patches = <<>>
    /\ ap = [pc |-> "idle"]

OrderSpec == OrderInit /\ [][Next]_vars

(***************************************************************************)
(* The state machine of a call apply_patches(assumptions, policy, patches) *)
(* on the caller's two tables.                                             *)
(***************************************************************************)
PatchInit ==
    /\ \E a \in PatchAssumptionTables : \E p \in PatchPolicyTables :
          tables = [x \in {CallerAssumptions, CallerPolicy} |->
                       IF x = CallerAssumptions THEN a ELSE p]
    /\ patches \in PatchLists
    /\ ap = [pc |-> "call"]
    /\ assumptions = <<>>
    /\ policy = <<>>
    /\ years = <<>>
    /\ extra = <<>>
    /\ order = <<>>
    /\ heap = EmptyDict
    /\ pc = [r \in Runs |-> "idle"]
    /\ world0 = [r \in Runs |-> NoneVal]
    /\ agents0 = [r \in Runs |-> <<>>]
    /\ world = [r \in Runs |-> NoneVal]
    /\ agents = [r \in Runs |-> <<>>]
    /\ history = [r \in Runs |-> <<>>]
    /\ dicts = EmptyDict
    /\ wrefs = [r \in Runs |-> <<>>]

\* assumptions = _ensure_dim_cols(assumptions.copy()), and the same for
\* policy (the copy of patches is only read).
CopyInputs ==
    /\ ap.pc = "call"
    /\ LET n == Cardinality(DOMAIN tables)
           a == CopyOf(CallerAssumptions, n + 1)
           p == CopyOf(CallerPolicy, n + 2)
       IN  /\ tables' = [x \in DOMAIN tables \cup {a, p} |->
                            IF x = a
                            THEN EnsureDimCols(tables[CallerAssumptions])
                            ELSE IF x = p
                            THEN EnsureDimCols(tables[CallerPolicy])
                            ELSE tables[x]]
           /\ ap' = [pc |-> "loop", assumptions |-> a, policy |-> p, i |-> 1]
    /\ UNCHANGED <<patches, simVars>>

\* One iteration of for _, row in patches.iterrows().
ApplyPatch ==
    /\ ap.pc = "loop"
    /\ ap.i <= Len(patches)
    /\ LET row == patches[ap.i]
           onAssumptions == row.target = "assumptions"
           base == IF onAssumptions THEN ap.assumptions ELSE ap.policy
       IN  \E res \in {PatchStep(tables, base, row)} :
              /\ tables' = res.store
              /\ ap' = [ap EXCEPT
                          !.i = @ + 1,
                          !.assumptions = IF onAssumptions THEN res.base
                                          ELSE @,
                          !.policy = IF onAssumptions THEN @ ELSE res.base]
    /\ UNCHANGED <<patches, simVars>>

\* return assumptions, policy
ReturnPatched ==
    /\ ap.pc = "loop"
    /\ ap.i > Len(patches)
    /\ ap' = [ap EXCEPT !.pc = "done"]
    /\ UNCHANGED <<tables, patches, simVars>>

PatchNext == CopyInputs \/ ApplyPatch \/ ReturnPatched

PatchSpec == PatchInit /\ [][PatchNext]_vars

(***************************************************************************)
(* Properties.  History indices are counted from 1: entry i is the result  *)
(* of the i-th step, so the entry the program calls history[i] is entry    *)
(* i + 1 here.                                                             *)
(***************************************************************************)
Built(r) == pc[r] # "new"

Done(r) == pc[r] = "done"

\* The world the i-th step of run r started from.
WorldBefore(r, i) == IF i = 1 THEN world0[r] ELSE history[r][i - 1].world

\* years starts at t0 and goes up by one.
IsContiguousFrom(yrs, t0) == \A i \in DOMAIN yrs : yrs[i] = t0 + i - 1

Producers(r, i) ==
    {k \in DOMAIN history[r][i].agents :
        heap[history[r][i].agents[k]].agent_type \in ProducerTypes}

\* C1: time monotonicity.  Every step returns a world whose year is the
\* year of its input world plus one, and in a run whose years list starts
\* at world0.t and is contiguous the world of every history entry carries
\* the year after the one the entry was simulated for (start_year + i + 1
\* for the program's index i).
TimeMonotonicity ==
    \A r \in Runs : Built(r) =>
        \A i \in 1..Len(history[r]) :
            /\ history[r][i].world.t = WorldBefore(r, i).t + 1
            /\ IsContiguousFrom(years, world0[r].t)
                  => history[r][i].world.t = years[i] + 1

TimeMonotonicityWitness ==
    /\ Done(1)
    /\ Len(history[1]) = MaxSteps
    /\ IsContiguousFrom(years, world0[1].t)
    /\ history[1][MaxSteps].world.t = StartYear + MaxSteps

HistoryCapacityNotRetroactive ==
    \A r \in Runs : Done(r) =>
        \A i \in 1..Len(history[r]) : \A k \in Producers(r, i) :
            heap[history[r][i].agents[k]].capacity
                = history[r][i].actions[k].state_after.capacity

\* C3: price floor.  The electricity and hydrogen prices of the current
\* world and of every recorded world are never negative.
PriceFloor ==
    \A r \in Runs : Built(r) =>
        /\ world[r].prices.electricity >= 0
        /\ world[r].prices.hydrogen >= 0
        /\ \A i \in 1..Len(history[r]) :
              /\ history[r][i].world.prices.electricity >= 0
              /\ history[r][i].world.prices.hydrogen >= 0

PriceFloorWitness ==
    \E i \in 1..Len(history[1]) :
        /\ 100 * WorldBefore(1, i).prices.hydrogen
             + 5 * (WorldBefore(1, i).demand.hydrogen
                    - history[1][i].world.flows.hydrogen_supply) < 0
        /\ history[1][i].world.prices.hydrogen = 0

RECURSIVE SupplyUpTo(_, _, _)
SupplyUpTo(actions, c, n) ==
    IF n = 0 THEN 0
    ELSE SupplyUpTo(actions, c, n - 1)
         + (IF c \in DOMAIN actions[n].supply THEN actions[n].supply[c] ELSE 0)

\* C4: market clearing.  For electricity and for hydrogen the price after
\* a step is max(0, old price + 0.05 * (demand - total supply)), with the
\* demand and price of the step's input world and the supply summed over
\* the step's actions (an action without the commodity counts as 0); one
\* adjustment per step.
MarketClearingRule ==
    \A r \in Runs : Built(r) =>
        \A i \in 1..Len(history[r]) : \A c \in {"electricity", "hydrogen"} :
            LET old == WorldBefore(r, i)
                total == SupplyUpTo(history[r][i].actions, c,
                                    Len(history[r][i].actions))
                adj == 5 * (old.demand[c] - total)
            IN  /\ adj % 100 = 0
                /\ history[r][i].world.prices[c]
                     = (IF old.prices[c] + adj \div 100 >= 0
                        THEN old.prices[c] + adj \div 100 ELSE 0)

MarketClearingRuleWitness ==
    /\ Len(history[1]) >= 1
    /\ world0[1].demand.electricity = 8000
    /\ world0[1].prices.electricity = 5000
    /\ SupplyUpTo(history[1][1].actions, "electricity",
                  Len(history[1][1].actions)) = 10000
    /\ history[1][1].world.prices.electricity = 4900

\* npv - invest_threshold, on ComputeNpv's scale, for a producer ag deciding
\* in world w with the parameters of the year w.t.
NpvMinusThreshold(ag, w) ==
    LET P(param, default) ==
            LookupParam(assumptions, ag.tech, w.t, param, default)
        fc == ForecastPrices(w.prices[ag.tech], P("trend_param", 0),
                             ag.horizon)
        npv == ComputeNpv(P("capex", 100000), P("opex", 1000), fc,
                          P("emissions_intensity", 0), w.prices.carbon,
                          P("discount_rate", 7))
    IN  BigAdd(npv, BigNeg(NpvScaled(P("invest_threshold", 0), ag.horizon,
                                     P("discount_rate", 7))))

\* The decision act of producer ag in world w follows the investment rule.
FollowsInvestmentRule(act, ag, w) ==
    \A diff \in {NpvMinusThreshold(ag, w)} :
        LET maxcap == LookupParam(assumptions, ag.tech, w.t, "max_capacity",
                                  Inf)
            invest_step == LookupParam(assumptions, ag.tech, w.t,
                                       "invest_step", 1000)
            above == diff[3] >= 0 /\ diff # <<0, 0, 0>>
            room == maxcap - ag.capacity
        IN  /\ act.invest[ag.tech]
                 = (IF above /\ ag.capacity < maxcap
                    THEN (IF invest_step <= room THEN invest_step ELSE room)
                    ELSE 0)
            /\ diff = <<0, 0, 0>> => act.invest[ag.tech] = 0
            /\ act.retire[ag.tech] = 0

\* C5: investment decision of a producer.  In every step, the Action of a
\* producer has invest[tech] = min(invest_step, max_capacity - capacity)
\* when npv > invest_threshold and capacity < max_capacity (with the world
\* and the capacity the step started from), and 0 otherwise, in particular
\* when npv equals invest_threshold; retire[tech] is always 0.
InvestmentDecision ==
    [][\A r \in Runs :
          Len(history'[r]) > Len(history[r]) =>
              \A k \in DOMAIN agents[r] :
                  heap[agents[r][k]].agent_type \in ProducerTypes =>
                      FollowsInvestmentRule(
                          history'[r][Len(history'[r])].actions[k],
                          heap[agents[r][k]], world[r])]_vars

InvestmentDecisionWitness ==
    \E i \in 1..Len(history[1]) : \E k \in Producers(1, i) :
        LET act == history[1][i].actions[k]
            ag == act.state_before
            maxcap == LookupParam(assumptions, ag.tech, WorldBefore(1, i).t,
                                  "max_capacity", Inf)
        IN  /\ ag.capacity < maxcap
            /\ act.invest[ag.tech] = maxcap - ag.capacity
            /\ act.invest[ag.tech] > 0
            /\ act.invest[ag.tech] < 1000

\* C6: a producer supplies the capacity it had before the step's
\* investment is applied, and the investment decided in one step is
\* supplied from the next step on: supply of entry i + 1 = supply of entry
\* i + invest of entry i.
SupplyLagsInvestment ==
    \A r \in Runs : Built(r) =>
        \A i \in 1..Len(history[r]) : \A k \in Producers(r, i) :
            LET act == history[r][i].actions[k]
                tech == act.state_before.tech
            IN  /\ act.supply[tech] = act.state_before.capacity
                /\ i < Len(history[r]) =>
                      history[r][i + 1].actions[k].supply[tech]
                          = act.supply[tech] + act.invest[tech]

SupplyLagsInvestmentWitness ==
    \E i \in 1..(Len(history[1]) - 1) : \E k \in Producers(1, i) :
        LET act == history[1][i].actions[k]
        IN  /\ act.invest[act.state_before.tech] > 0
            /\ history[1][i + 1].actions[k].supply[act.state_before.tech]
                 > act.supply[act.state_before.tech]

PolicyRowsFor(t) ==
    {j \in 1..Len(policy) : policy[j].year = t
                            /\ policy[j].policy_type = "carbon_price"}

\* C7: carbon price stickiness.  The carbon price after a step is the
\* value of the first policy row of the input world's year with
\* policy_type carbon_price, and the input world's carbon price when there
\* is no such row (it is not reset to the default).
CarbonStickiness ==
    \A r \in Runs : Built(r) =>
        \A i \in 1..Len(history[r]) :
            LET old == WorldBefore(r, i)
                rows == PolicyRowsFor(old.t)
                new == history[r][i].world.prices.carbon
            IN  /\ rows # {} =>
                      \E j \in rows : /\ \A j2 \in rows : j <= j2
                                      /\ new = policy[j].value
                /\ rows = {} => new = old.prices.carbon

CarbonStickinessWitness ==
    \E i \in 1..Len(history[1]) :
        /\ PolicyRowsFor(WorldBefore(1, i).t) = {}
        /\ WorldBefore(1, i).prices.carbon > 0
        /\ history[1][i].world.prices.carbon = WorldBefore(1, i).prices.carbon

DemandRowsFor(t, c) ==
    {j \in 1..Len(assumptions) : /\ assumptions[j].tech = c
                                 /\ assumptions[j].year = t
                                 /\ assumptions[j].param = "demand"}

\* C8: demand stickiness.  The world a step returns has, for electricity
\* and for hydrogen, the demand of the first assumptions row (commodity,
\* input year + 1, demand) when there is one, and the input world's demand
\* otherwise.
DemandStickiness ==
    \A r \in Runs : Built(r) =>
        \A i \in 1..Len(history[r]) : \A c \in {"electricity", "hydrogen"} :
            LET old == WorldBefore(r, i)
                rows == DemandRowsFor(old.t + 1, c)
                new == history[r][i].world.demand[c]
            IN  /\ rows # {} =>
                      \E j \in rows : /\ \A j2 \in rows : j <= j2
                                      /\ new = assumptions[j].value
                /\ rows = {} => new = old.demand[c]

DemandStickinessWitness ==
    /\ Len(history[1]) >= 2
    /\ DemandRowsFor(world0[1].t + 1, "electricity") = {}
    /\ world0[1].demand.electricity # DEFAULT_DEMAND.electricity
    /\ history[1][1].world.demand.electricity = world0[1].demand.electricity
    /\ DemandRowsFor(world0[1].t + 1, "hydrogen") # {}
    /\ history[1][1].world.demand.hydrogen # world0[1].demand.hydrogen

\* What a reader of the returned history of run r sees.
HistoryView(r) ==
    [i \in 1..Len(history[r]) |->
        [world |-> history[r][i].world,
         capacities |-> [k \in DOMAIN history[r][i].agents |->
                            heap[history[r][i].agents[k]].capacity],
         actions |-> history[r][i].actions]]

\* C10: determinism.  Two runs that build their world0 and agents0 afresh
\* from the same assumptions, policy and start year and simulate the same
\* years return the same history: the same worlds, capacities and actions
\* at every index.
Determinism ==
    \A r1 \in Runs : \A r2 \in Runs :
        Done(r1) /\ Done(r2) =>
            /\ world0[r1] = world0[r2]
            /\ HistoryView(r1) = HistoryView(r2)

DeterminismWitness ==
    /\ Done(1)
    /\ Done(2)
    /\ Len(history[2]) >= 2
    /\ \E i \in 1..Len(history[2]) : \E k \in Producers(2, i) :
          history[2][i].actions[k].invest[heap[history[2][i].agents[k]].tech]
              > 0


KnownTypes ==
    {"ElectricityProducer", "HydrogenProducer", "IndustrialConsumer",
     "Regulator"}

HasUnknownType(r) ==
    \E k \in DOMAIN agents[r] : heap[agents[r][k]].agent_type \notin KnownTypes

\* C11: a step on an agent list that contains an agent of a type other
\* than ElectricityProducer, HydrogenProducer, IndustrialConsumer and
\* Regulator aborts as a whole: the run ends in the error, no agent's
\* capacity is changed by that step, the world (prices, flows, emissions)
\* keeps the values it had and no history entry is appended; and a run
\* only ends in the error when its list contains such an agent.
UnknownTypeAbortsStep ==
    [][\A r \in Runs :
          /\ (pc[r] = "loop" /\ Len(history[r]) < Len(years)
                             /\ HasUnknownType(r)) =>
                /\ pc'[r] = "error"
                /\ \A k \in DOMAIN agents[r] :
                      heap'[agents[r][k]] = heap[agents[r][k]]
                /\ history'[r] = history[r]
                /\ world'[r] = world[r]
                /\ agents'[r] = agents[r]
          /\ (pc'[r] = "error" /\ pc[r] # "error") => HasUnknownType(r)]_vars

UnknownTypeAbortsStepWitness ==
    /\ pc[1] = "error"
    /\ HasUnknownType(1)
    /\ history[1] = <<>>
    /\ LookupParam(assumptions, "electricity", world[1].t, "invest_threshold",
                   0) < 0
    /\ heap[agents[1][1]].agent_type = "ElectricityProducer"
    /\ heap[agents[1][1]].capacity = 10000


Regulators(r, i) ==
    {k \in DOMAIN history[r][i].agents :
        heap[history[r][i].agents[k]].agent_type = "Regulator"}

\* C12: Regulator no-op.  In every step and whatever the world, the
\* Action of a Regulator has empty supply, invest and retire maps and
\* emissions 0, and the step leaves the Regulator's capacity as it was.
RegulatorNoOp ==
    \A r \in Runs : Built(r) =>
        \A i \in 1..Len(history[r]) : \A k \in Regulators(r, i) :
            LET act == history[r][i].actions[k]
            IN  /\ DOMAIN act.supply = {}
                /\ DOMAIN act.invest = {}
                /\ DOMAIN act.retire = {}
                /\ act.emissions = 0
                /\ act.state_after.capacity = act.state_before.capacity
                /\ heap[history[r][i].agents[k]].capacity
                     = history[r][1].actions[k].state_before.capacity

RegulatorNoOpWitness ==
    \E i \in 2..Len(history[1]) : \E k \in Regulators(1, i) :
        /\ WorldBefore(1, i).prices.carbon > 0
        /\ WorldBefore(1, i).emissions > 0
        /\ history[1][i].actions[k].emissions = 0


\* C13: the Action of a producer carries expected_price, the first element
\* of its price forecast, current_price * (1 + trend_param * (1 / horizon));
\* the Action of a Regulator or an IndustrialConsumer carries none.
ExpectedPriceIsFirstForecast ==
    \A r \in Runs : Built(r) =>
        \A i \in 1..Len(history[r]) : \A k \in DOMAIN history[r][i].actions :
            LET act == history[r][i].actions[k]
                ag == act.state_before
                w == WorldBefore(r, i)
            IN  IF ag.agent_type \in ProducerTypes
                THEN /\ act.expected_price # NoneVal
                     /\ act.expected_price * ForecastDen(ag.horizon)
                          = ForecastPrices(w.prices[ag.tech],
                                LookupParam(assumptions, ag.tech, w.t,
                                            "trend_param", 0),
                                ag.horizon)[1]
                ELSE act.expected_price = NoneVal

RequiredInputs(agent_type) ==
    IF agent_type \in ProducerTypes
    THEN {"prices", "capacity", "costs", "horizon", "discount_rate"}
    ELSE IF agent_type = "IndustrialConsumer"
    THEN {"demand", "ref_price", "consumption"}
    ELSE {"carbon_price", "year"}

\* C14: the Action of every agent of a recognised type carries a non-null
\* action_inputs mapping with the keys of its type: prices, capacity,
\* costs, horizon and discount_rate for a producer; demand, ref_price and
\* consumption for an IndustrialConsumer; carbon_price and year for a
\* Regulator.
ActionInputsRecorded ==
    \A r \in Runs : Built(r) =>
        \A i \in 1..Len(history[r]) : \A k \in DOMAIN history[r][i].actions :
            LET act == history[r][i].actions[k]
            IN  /\ act.action_inputs # NoneVal
                /\ RequiredInputs(act.state_before.agent_type)
                      \subseteq DOMAIN act.action_inputs


\* The assumptions rows for (tech, t, param), as positions in the table.
RowsFor(tech, t, param) ==
    {j \in 1..Len(assumptions) : /\ assumptions[j].tech = tech
                                 /\ assumptions[j].year = t
                                 /\ assumptions[j].param = param}

\* The value of the first row for (tech, t, param), or the default.
FirstRowOr(tech, t, param, default) ==
    IF RowsFor(tech, t, param) = {} THEN default
    ELSE assumptions[CHOOSE j \in RowsFor(tech, t, param) :
                        \A j2 \in RowsFor(tech, t, param) : j <= j2].value

NoRowsForTech(tech) == \A j \in 1..Len(assumptions) : assumptions[j].tech # tech

\* The decision act of producer ag in world w is the one the parameters
\* give that come from the first matching row, or from the stated default:
\* capex 1000.0, opex 10.0, emissions_intensity 0.0, trend_param 0.0,
\* discount_rate 0.07, invest_threshold 0.0, max_capacity +infinity,
\* invest_step 10.0.
DecidedWithFirstRowOrDefault(act, ag, w) ==
    LET P(param, default) == FirstRowOr(ag.tech, w.t, param, default)
        H == ag.horizon
        fc == [y \in 1..H |->
                  w.prices[ag.tech] * (100 * H + P("trend_param", 0) * y)]
    IN  \A diff \in {BigAdd(ComputeNpv(P("capex", 100000), P("opex", 1000),
                                       fc, P("emissions_intensity", 0),
                                       w.prices.carbon,
                                       P("discount_rate", 7)),
                            BigNeg(NpvScaled(P("invest_threshold", 0), H,
                                             P("discount_rate", 7))))} :
            LET above == diff[3] >= 0 /\ diff # <<0, 0, 0>>
                room == P("max_capacity", Inf) - ag.capacity
            IN  /\ act.emissions * 100
                     = ag.capacity * P("emissions_intensity", 0)
                /\ act.invest[ag.tech]
                     = (IF above /\ room > 0
                        THEN (IF P("invest_step", 1000) <= room
                              THEN P("invest_step", 1000) ELSE room)
                        ELSE 0)
                /\ NoRowsForTech(ag.tech) =>
                      /\ act.emissions = 0
                      /\ act.invest[ag.tech] \in {0, 1000}

\* C15: default fallback and lookup rule.  In every step the decision of
\* a producer uses, for each parameter, the value of the first assumptions
\* row that matches its tech, the year and the parameter exactly, and the
\* stated default when no row matches; with no rows for the tech it is the
\* decision of the defaults alone.
DefaultFallback ==
    [][\A r \in Runs :
          Len(history'[r]) > Len(history[r]) =>
              \A k \in DOMAIN agents[r] :
                  heap[agents[r][k]].agent_type \in ProducerTypes =>
                      DecidedWithFirstRowOrDefault(
                          history'[r][Len(history'[r])].actions[k],
                          heap[agents[r][k]], world[r])]_vars

DefaultFallbackWitness ==
    \E i \in 1..Len(history[1]) :
        \E k1 \in Producers(1, i) : \E k2 \in Producers(1, i) :
            LET a1 == history[1][i].actions[k1]
                a2 == history[1][i].actions[k2]
                t == WorldBefore(1, i).t
                rows == RowsFor("electricity", t, "emissions_intensity")
            IN  /\ a1.state_before.tech = "hydrogen"
                /\ NoRowsForTech("hydrogen")
                /\ a1.emissions = 0
                /\ a2.state_before.tech = "electricity"
                /\ Cardinality(rows) = 2
                /\ \E j \in rows : \E j2 \in rows :
                      /\ j < j2
                      /\ assumptions[j].value # assumptions[j2].value
                      /\ a2.emissions * 100
                           = a2.state_before.capacity * assumptions[j].value


\* C16: capacity monotonic non-decrease.  With every invest_step >= 0 (the
\* default 10.0 included), no step lowers the capacity of a producer, and
\* the capacity after step i + 1 is at least the capacity after step i.
CapacityNonDecreasing ==
    \A r \in Runs : Built(r) =>
        ((\A j \in 1..Len(assumptions) :
              assumptions[j].param = "invest_step" => assumptions[j].value >= 0)
         => \A i \in 1..Len(history[r]) : \A k \in Producers(r, i) :
               LET act == history[r][i].actions[k]
               IN  /\ act.state_after.capacity >= act.state_before.capacity
                   /\ i < Len(history[r]) =>
                         history[r][i + 1].actions[k].state_after.capacity
                             >= act.state_after.capacity)

CapacityNonDecreasingWitness ==
    /\ Len(history[1]) >= 2
    /\ \A j \in 1..Len(assumptions) : assumptions[j].param # "invest_threshold"
    /\ \E k \in Producers(1, 1) :
          /\ history[1][1].actions[k].invest[
                 history[1][1].actions[k].state_before.tech] > 0
          /\ history[1][1].actions[k].state_after.capacity
                > history[1][1].actions[k].state_before.capacity
          /\ history[1][2].actions[k].state_after.capacity
                >= history[1][1].actions[k].state_after.capacity

\* C17: init_world.  The initial world has t = start_year, the carbon
\* price of the first policy row (start_year, carbon_price) or 0.0 when
\* there is none, the electricity and hydrogen prices 50.0 and 3.0
\* whatever the assumptions, and for each commodity the demand of the
\* first assumptions row (commodity, start_year, demand) or the default
\* 100.0 / 10.0.
InitWorldContract ==
    \A r \in Runs : Built(r) =>
        /\ world0[r].t = StartYear
        /\ world0[r].prices.electricity = 5000
        /\ world0[r].prices.hydrogen = 300
        /\ world0[r].prices.carbon
             = (IF PolicyRowsFor(StartYear) = {} THEN 0
                ELSE policy[CHOOSE j \in PolicyRowsFor(StartYear) :
                        \A j2 \in PolicyRowsFor(StartYear) : j <= j2].value)
        /\ world0[r].demand.electricity
             = FirstRowOr("electricity", StartYear, "demand", 10000)
        /\ world0[r].demand.hydrogen
             = FirstRowOr("hydrogen", StartYear, "demand", 1000)
        /\ DOMAIN world0[r].demand = {"electricity", "hydrogen"}
        /\ DOMAIN world0[r].prices = {"electricity", "hydrogen", "carbon"}

InitWorldContractWitness ==
    /\ Built(1)
    /\ Cardinality(PolicyRowsFor(StartYear)) = 2
    /\ world0[1].prices.carbon = 1000
    /\ RowsFor("electricity", StartYear, "demand") # {}
    /\ world0[1].demand.electricity = 8000
    /\ RowsFor("hydrogen", StartYear, "demand") = {}
    /\ world0[1].demand.hydrogen = 1000
    /\ Len(assumptions) = 2


\* The capacity agent k of run r had when step i started.
CapacityBeforeStep(r, i, k) ==
    IF i > 1 THEN history[r][i - 1].actions[k].state_after.capacity
    ELSE LET ag == heap[agents0[r][k]]
         IN  IF ag.agent_type = "ElectricityProducer"
             THEN FirstRowOr("electricity", StartYear, "initial_capacity",
                             10000)
             ELSE IF ag.agent_type = "HydrogenProducer"
             THEN FirstRowOr("hydrogen", StartYear, "initial_capacity", 1000)
             ELSE 0

\* C20: capacity update and trace.  Every Action of a step carries
\* state_before and state_after of its own agent (snapshots with the id of
\* the Action, so neither is null); state_before.capacity is
\* the capacity the agent had when the step started; state_after.capacity
\* is state_before.capacity + invest[tech] (0 if absent) for a producer,
\* greater whenever the investment is positive, and state_before.capacity
\* for any other agent; every other field (id, agent_type, region, sector,
\* tech, vintage, cash, horizon, params) is the same before and after; and
\* the agent objects hold the state_after of the latest step.
CapacityUpdateAndTrace ==
    \A r \in Runs : Built(r) =>
        \A i \in 1..Len(history[r]) : \A k \in DOMAIN history[r][i].actions :
            LET act == history[r][i].actions[k]
                before == act.state_before
                after == act.state_after
                added == IF before.agent_type \in ProducerTypes
                            /\ before.tech \in DOMAIN act.invest
                         THEN act.invest[before.tech] ELSE 0
            IN  /\ before.id = act.agent_id
                /\ after.id = act.agent_id
                /\ before.capacity = CapacityBeforeStep(r, i, k)
                /\ after.capacity = before.capacity + added
                /\ added > 0 => after.capacity > before.capacity
                /\ [after EXCEPT !.capacity = before.capacity] = before
                /\ i = Len(history[r]) =>
                      AgentToDict(heap[history[r][i].agents[k]]) = after

CapacityUpdateAndTraceWitness ==
    \E i \in 2..Len(history[1]) :
        \E k1 \in Producers(1, i) : \E k2 \in Regulators(1, i) :
            LET a1 == history[1][i].actions[k1]
                a2 == history[1][i].actions[k2]
            IN  /\ a1.invest[a1.state_before.tech] > 0
                /\ a1.state_before.capacity
                     > history[1][1].actions[k1].state_before.capacity
                /\ a1.state_after.capacity > a1.state_before.capacity
                /\ a2.state_after = a2.state_before


\* C18: apply_patches does not modify its input tables.  No step of a call
\* changes the rows, the columns or a value of the caller's assumptions or
\* policy table, whatever the patches, and the tables it returns are other
\* objects than the caller's.
InputsNotModified ==
    [][/\ tables'[CallerAssumptions] = tables[CallerAssumptions]
       /\ tables'[CallerPolicy] = tables[CallerPolicy]
       /\ ap'.pc = "done" =>
             {ap'.assumptions, ap'.policy}
                 \cap {CallerAssumptions, CallerPolicy} = {}]_vars

InputsNotModifiedWitness ==
    /\ ap.pc = "done"
    /\ Len(patches) = MaxPatches
    /\ tables[CallerAssumptions].columns # tables[ap.assumptions].columns
    /\ \E j \in DOMAIN tables[CallerAssumptions].rows :
          tables[ap.assumptions].rows[j].value
              # tables[CallerAssumptions].rows[j].value
    /\ Len(tables[ap.policy].rows) > Len(tables[CallerPolicy].rows)

\* The rows of table df that equal the patch on its non-null dimensions.
MatchedBy(df, row) ==
    {j \in 1..Len(df.rows) :
        \A c \in DIM_COLS : row[c] # NoneVal => df.rows[j][c] = row[c]}

\* C19: one patch.  A replace patch with matching rows sets the value of
\* exactly those rows and keeps the row count; without a matching row it
\* appends one row that carries the patch's dimensions and value and keeps
\* the rows there were; a scale or add patch without a matching row leaves
\* the table as it is; and the table the patch does not target is not
\* changed.
PatchRule ==
    [][(ap.pc = "loop" /\ ap.i <= Len(patches)) =>
          LET row == patches[ap.i]
              tgt == IF row.target = "assumptions" THEN "assumptions"
                     ELSE "policy"
              oth == IF tgt = "assumptions" THEN "policy" ELSE "assumptions"
              T == tables[ap[tgt]]
              T2 == tables'[ap'[tgt]]
              M == MatchedBy(T, row)
              n == Len(T.rows)
          IN  /\ ap'[oth] = ap[oth]
              /\ tables'[ap[oth]] = tables[ap[oth]]
              /\ (row.operation = "replace" /\ M # {}) =>
                    /\ T2.columns = T.columns
                    /\ Len(T2.rows) = n
                    /\ \A j \in 1..n :
                          T2.rows[j] = IF j \in M
                                       THEN [T.rows[j] EXCEPT
                                                !.value = row.value]
                                       ELSE T.rows[j]
              /\ (row.operation = "replace" /\ M = {}) =>
                    /\ Len(T2.rows) = n + 1
                    /\ \A j \in 1..n : \A c \in T.columns :
                          T2.rows[j][c] = T.rows[j][c]
                    /\ \A c \in DIM_COLS : T2.rows[n + 1][c] = row[c]
                    /\ T2.rows[n + 1].value = row.value
              /\ (row.operation \in {"scale", "add"} /\ M = {}) =>
                    T2 = T]_vars

PatchRuleWitness ==
    /\ ap.pc = "done"
    /\ Len(patches) = 2
    /\ patches[1].operation = "replace"
    /\ Cardinality(MatchedBy(EnsureDimCols(tables[CallerAssumptions]),
                             patches[1])) = 2
    /\ \A j \in 1..2 : tables[ap.assumptions].rows[j].value = patches[1].value
    /\ patches[2].operation = "replace"
    /\ patches[2].target = "policy"
    /\ Len(tables[CallerPolicy].rows) = 2
    /\ Len(tables[ap.policy].rows) = 3
    /\ tables[ap.policy].rows[3].value = patches[2].value


\* C21: simulate does not modify its inputs.  When simulate has returned,
\* every AgentState of agents0 has the capacity it had before the call,
\* and a second call simulate(world0, agents0, years) on the same objects
\* returns the worlds and actions of the first.
SimulateKeepsInputs ==
    \A r \in Runs : (Done(r) /\ Len(history[r]) >= 1) =>
        /\ \A k \in DOMAIN agents0[r] :
              heap[agents0[r][k]].capacity
                  = history[r][1].actions[k].state_before.capacity
        /\ SimulateFrom(world0[r], heap, agents0[r], Len(years))
             = [i \in 1..Len(history[r]) |->
                   [world |-> history[r][i].world,
                    actions |-> history[r][i].actions]]


\* The world held at position i of the record of run r: world0 at 1, the
\* world of history entry i - 1 after it.
WorldAt(r, i) == IF i = 1 THEN world0[r] ELSE history[r][i - 1].world

\* The positions (run, index) of the worlds constructed so far.
WorldsBuilt == {p \in Runs \X (1..(MaxSteps + 1)) : p[2] <= Len(wrefs[p[1]])}

\* C22: a WorldState is never mutated after construction.  No step of
\* any run changes the content of the prices, demand or flows dict of a
\* world constructed earlier (world0 or the world of a history entry),
\* nor the world recorded; a newly constructed world holds dict objects
\* that did not exist before, with the content of the world; and
\* clear_markets on the input world of a step returns the same t and an
\* equal demand.
WorldsNeverMutated ==
    [][/\ \A p \in WorldsBuilt :
             LET refs == wrefs[p[1]][p[2]]
             IN  /\ wrefs'[p[1]][p[2]] = refs
                 /\ dicts'[refs.prices] = dicts[refs.prices]
                 /\ dicts'[refs.demand] = dicts[refs.demand]
                 /\ dicts'[refs.flows] = dicts[refs.flows]
                 /\ WorldAt(p[1], p[2])' = WorldAt(p[1], p[2])
       /\ \A r \in Runs :
             Len(wrefs'[r]) > Len(wrefs[r]) =>
                 LET i == Len(wrefs'[r])
                     refs == wrefs'[r][i]
                     w == IF i = 1 THEN world0'[r]
                          ELSE history'[r][i - 1].world
                 IN  /\ {refs.prices, refs.demand, refs.flows}
                            \cap DOMAIN dicts = {}
                     /\ dicts'[refs.prices] = w.prices
                     /\ dicts'[refs.demand] = w.demand
                     /\ dicts'[refs.flows] = w.flows
                     /\ i = Len(history'[r]) + 1
                     /\ i > 1 =>
                           LET world2 == ClearMarkets(world[r],
                                             history'[r][i - 1].actions)
                           IN  /\ world2.t = world[r].t
                               /\ world2.demand = world[r].demand
      ]_vars

\* A later step has changed prices and demand, and the earlier world and
\* world0 are still recorded.
WorldsNeverMutatedWitness ==
    \E r \in Runs :
        /\ Len(history[r]) >= 2
        /\ history[r][2].world.prices # history[r][1].world.prices
        /\ history[r][1].world.demand # world0[r].demand
        /\ history[r][1].world.prices # world0[r].prices


\* The capacity of the producers of commodity c summed over the first n
\* actions of a history entry, read from the state captured before
\* (field "state_before") or after (field "state_after") the step.
RECURSIVE CapacitySum(_, _, _, _)
CapacitySum(actions, c, field, n) ==
    IF n = 0 THEN 0
    ELSE CapacitySum(actions, c, field, n - 1)
         + (IF /\ actions[n][field].agent_type \in ProducerTypes
               /\ actions[n][field].tech = c
            THEN actions[n][field].capacity ELSE 0)

\* The price rule applied to price p, demand d and supply s.
PriceAfter(p, d, s) ==
    IF p + (5 * (d - s)) \div 100 >= 0 THEN p + (5 * (d - s)) \div 100 ELSE 0

\* C23: the order within a step is decide-all, clear, apply investments,
\* update demand.  The prices and the flows a step returns are those of
\* the demand of its input world and of the capacities the producers had
\* before the step, not of the demand the returned world carries nor of
\* the capacity added in the step.
StepOrdering ==
    [][\A r \in Runs :
          Len(history'[r]) > Len(history[r]) =>
              \A c \in {"electricity", "hydrogen"} :
                  LET old == world[r]
                      entry == history'[r][Len(history'[r])]
                      n == Len(entry.actions)
                      pre == CapacitySum(entry.actions, c, "state_before", n)
                  IN  /\ entry.world.prices[c]
                           = PriceAfter(old.prices[c], old.demand[c], pre)
                      /\ entry.world.flows[c \o "_supply"] = pre
      ]_vars

\* A step in which the demand of the next year differs from the demand of
\* the input world and a producer invests, so that the three candidate
\* prices differ.
StepOrderingWitness ==
    \E i \in 1..Len(history[1]) :
        LET old == WorldBefore(1, i)
            entry == history[1][i]
            n == Len(entry.actions)
            pre == CapacitySum(entry.actions, "electricity", "state_before", n)
            post == CapacitySum(entry.actions, "electricity", "state_after", n)
            p == old.prices.electricity
        IN  /\ post > pre
            /\ entry.world.demand.electricity # old.demand.electricity
            /\ entry.world.prices.electricity
                 # PriceAfter(p, entry.world.demand.electricity, pre)
            /\ entry.world.prices.electricity
                 # PriceAfter(p, old.demand.electricity, post)


ConsumerActions(entry) ==
    {k \in DOMAIN entry.actions :
        entry.actions[k].state_before.agent_type = "IndustrialConsumer"}

\* The actions of a history entry without those of the consumers.
RECURSIVE WithoutConsumers(_, _)
WithoutConsumers(entry, n) ==
    IF n = 0 THEN <<>>
    ELSE WithoutConsumers(entry, n - 1)
         \o (IF n \in ConsumerActions(entry) THEN <<>>
             ELSE <<entry.actions[n]>>)

\* The demand for commodity c carried by the world after i steps of a
\* run, from the initial demand and the demand rows alone.
RECURSIVE DemandAfter(_, _, _)
DemandAfter(r, c, i) ==
    IF i = 0 THEN world0[r].demand[c]
    ELSE FirstRowOr(c, world0[r].t + i, "demand", DemandAfter(r, c, i - 1))

RECURSIVE EmissionsUpTo(_, _)
EmissionsUpTo(actions, n) ==
    IF n = 0 THEN 0 ELSE EmissionsUpTo(actions, n - 1) + actions[n].emissions

\* C26: emissions and flows accounting.  The Action of every producer has
\* emissions = supply * emissions_intensity, with the emissions_intensity
\* of the producer's technology for the year of the input world (0.0
\* without a row); the world a step returns has the sum of the emissions
\* of the step's actions as its emissions and the summed electricity and
\* hydrogen supplies of the step's actions as its flows.
EmissionsAndFlowsAccounting ==
    [][\A r \in Runs :
          Len(history'[r]) > Len(history[r]) =>
              LET entry == history'[r][Len(history'[r])]
                  old == world[r]
                  n == Len(entry.actions)
              IN  /\ \A k \in 1..n :
                        LET act == entry.actions[k]
                            tech == act.state_before.tech
                        IN  act.state_before.agent_type \in ProducerTypes =>
                              100 * act.emissions
                                = act.supply[tech]
                                  * FirstRowOr(tech, old.t,
                                               "emissions_intensity", 0)
                  /\ entry.world.emissions = EmissionsUpTo(entry.actions, n)
                  /\ entry.world.flows.electricity_supply
                       = SupplyUpTo(entry.actions, "electricity", n)
                  /\ entry.world.flows.hydrogen_supply
                       = SupplyUpTo(entry.actions, "hydrogen", n)
      ]_vars

\* A step with an emitting electricity producer, followed by the step of
\* a year without emissions_intensity row, whose world has no emissions.
EmissionsAndFlowsAccountingWitness ==
    \E i \in 1..Len(history[1]) :
        /\ history[1][i].actions[1].emissions > 0
        /\ history[1][i].world.emissions = history[1][i].actions[1].emissions
        /\ history[1][i].world.flows.electricity_supply > 0
        /\ i < Len(history[1])
        /\ history[1][i + 1].world.emissions = 0


\* The max_capacity of technology tech in the year of step i of run r.
MaxCapacityAt(r, tech, i) ==
    FirstRowOr(tech, world0[r].t + i - 1, "max_capacity", Inf)

RECURSIVE PolicyCarbonUpTo(_)
PolicyCarbonUpTo(y) ==
    IF y < StartYear THEN DEFAULT_PRICES.carbon
    ELSE IF PolicyRowsFor(y) # {}
    THEN policy[CHOOSE j \in PolicyRowsFor(y) :
                   \A j2 \in PolicyRowsFor(y) : j <= j2].value
    ELSE PolicyCarbonUpTo(y - 1)

\* C28: carbon price lag.  The world a step returns carries the year
\* t + 1 and the carbon price of policy year t (or the earlier value that
\* stuck), so the world every decision of a year t after the start year
\* is taken in has the carbon price of policy year t - 1, whatever the
\* policy row of year t says, while its demand is the demand of year t.
CarbonPriceLag ==
    [][\A r \in Runs :
          Len(history'[r]) > Len(history[r]) =>
              LET i == Len(history'[r])
                  old == world[r]
                  new == history'[r][i].world
                  acts == history'[r][i].actions
              IN  /\ new.t = old.t + 1
                  /\ new.prices.carbon = PolicyCarbonUpTo(new.t - 1)
                  /\ \A c \in {"electricity", "hydrogen"} :
                        new.demand[c]
                          = FirstRowOr(c, new.t, "demand", old.demand[c])
                  /\ i > 1 =>
                        /\ old.t > world0[r].t
                        /\ old.prices.carbon = PolicyCarbonUpTo(old.t - 1)
                        /\ \A k \in DOMAIN acts :
                              acts[k].state_before.agent_type
                                  \in ProducerTypes =>
                                acts[k]
                                  = [Decide(acts[k].state_before,
                                            [old EXCEPT !.prices.carbon =
                                                PolicyCarbonUpTo(old.t - 1)])
                                     EXCEPT
                                       !.state_before = acts[k].state_before,
                                       !.state_after = acts[k].state_after]
      ]_vars

\* The decisions of year 2026 were taken in a world that carries the
\* carbon price of policy year 2025 although the policy has a different
\* row for 2026, and the demand of 2026.
CarbonPriceLagWitness ==
    /\ Len(history[1]) >= 2
    /\ PolicyRowsFor(StartYear) # {}
    /\ PolicyRowsFor(StartYear + 1) # {}
    /\ WorldBefore(1, 2).t = StartYear + 1
    /\ WorldBefore(1, 2).prices.carbon = 1000
    /\ PolicyCarbonUpTo(StartYear + 1) = 5000
    /\ DemandRowsFor(StartYear + 1, "electricity") # {}
    /\ WorldBefore(1, 2).demand.electricity = 12000


\* A patch that sets the carbon price of a year in the policy table.
IsCarbonPricePatch(row) ==
    /\ row.target = "policy"
    /\ row.operation = "replace"
    /\ row.param = "carbon_price"
    /\ row.year # NoneVal

\* C29: a policy patch reaches the simulation.  When apply_patches has
\* returned and the last patch on the policy table was a replace with
\* param "carbon_price", year Y and value v, the carbon-price lookups of
\* init_world (start_year = Y) and of clear_markets (world.t = Y) on the
\* returned policy table yield v.
PolicyPatchReachesSimulation ==
    ap.pc = "done" =>
        \A i \in DOMAIN patches :
            (/\ IsCarbonPricePatch(patches[i])
             /\ \A j \in (i + 1)..Len(patches) : patches[j].target # "policy")
            => LET rows == tables[ap.policy].rows
                   Y == patches[i].year
               IN  /\ InitWorld(<<>>, rows, Y).prices.carbon
                        = patches[i].value
                   /\ CarbonPrice(rows, Y, DEFAULT_PRICES.carbon)
                        = patches[i].value


\* The value a patch makes of the value x of a row it matches.
PatchedValue(row, x) ==
    IF row.operation = "replace" THEN row.value
    ELSE IF row.operation = "scale" THEN (x * row.value) \div 100
    ELSE x + row.value

\* Two patches on the same table with the same dimensions.
SameDimensions(p, q) ==
    p.target = q.target /\ \A c \in DIM_COLS : p[c] = q[c]

\* The table the first patch of the list is applied to: the caller's
\* table of the patch's target with the dimension columns.
FirstPatchInput ==
    EnsureDimCols(tables[IF patches[1].target = "assumptions"
                         THEN CallerAssumptions ELSE CallerPolicy])

\* C30: patches are applied one after another, each to the result of the
\* previous ones.  When a patch follows a replace on the same table, the
\* rows the replace matches in the table the patch is applied to exist and
\* carry the replaced value; a scale or add then leaves the replaced value
\* scaled or incremented in every row both match; and a patch with the
\* dimensions of a replace that matched no row and appended one matches
\* that row and modifies it, the table keeping exactly one such row.
PatchesAreSequential ==
    [][(ap.pc = "loop" /\ ap'.pc = "loop" /\ ap.i >= 2
        /\ patches[ap.i - 1].operation = "replace"
        /\ patches[ap.i - 1].target = patches[ap.i].target) =>
          LET prev == patches[ap.i - 1]
              cur == patches[ap.i]
              onA == cur.target = "assumptions"
              df == tables[IF onA THEN ap.assumptions ELSE ap.policy]
              out == tables'[IF onA THEN ap'.assumptions ELSE ap'.policy]
              both == PatchMask(df, prev) \cap PatchMask(df, cur)
          IN  /\ PatchMask(df, prev) # {}
              /\ \A j \in PatchMask(df, prev) : df.rows[j].value = prev.value
              /\ cur.operation \in {"scale", "add"} =>
                    /\ Len(out.rows) = Len(df.rows)
                    /\ \A j \in both :
                          out.rows[j].value = PatchedValue(cur, prev.value)
              /\ (ap.i = 2 /\ SameDimensions(prev, cur)
                  /\ PatchMask(FirstPatchInput, prev) = {}) =>
                    LET n == Len(FirstPatchInput.rows)
                    IN  /\ Len(df.rows) = n + 1
                        /\ Len(out.rows) = n + 1
                        /\ PatchMask(df, cur) = {n + 1}
                        /\ PatchMask(out, cur) = {n + 1}
                        /\ out.rows[n + 1].value
                             = PatchedValue(cur, prev.value)
                        /\ \A j \in 1..n :
                              out.rows[j] = df.rows[j]
      ]_vars

\* A replace that matched no row of the caller's table appended one, and
\* the add with the same dimensions that followed incremented that row.
PatchesAreSequentialWitness ==
    /\ ap.pc = "done"
    /\ Len(patches) = 2
    /\ patches[1].operation = "replace"
    /\ patches[1].target = "assumptions"
    /\ patches[2].operation = "add"
    /\ SameDimensions(patches[1], patches[2])
    /\ PatchMask(FirstPatchInput, patches[1]) = {}
    /\ Len(tables[ap.assumptions].rows) = 2
    /\ tables[ap.assumptions].rows[2].value = 90700

====
